---- MODULE Spec2Model ----
(***************************************************************************)
(* Model of app.py: the POST /translate handler and                       *)
(* TranslationService.translate_text.                                     *)
(*                                                                         *)
(* Spec    : one request through the handler: validation, the single call *)
(*           to the provider (requests.get), the mapping of the provider's*)
(*           answer to the response envelope.                             *)
(* SpecEnc : the query string translate_text builds (quote + f-string)    *)
(*           and what the provider decodes from it, character by          *)
(*           character.                                                   *)
(***************************************************************************)
EXTENDS Integers, Sequences, FiniteSets, TLC

\* ------------------------------------------------------------------ bounds

\* app.py:127  len(text) > 5000
MaxTextLen == 5000

\* A text of the handler model is a sequence of at most MaxRuns runs.
MaxRuns == 2

\* ------------------------------------------------------- texts (Python str)

\* A text is a sequence of runs [c, n]: n copies of character c.  " " stands
\* for whitespace, "a" for any other encodable character, "\\ud800" for an
\* unpaired surrogate (json.loads accepts the escape, str.encode refuses it).
TextChars == {" ", "a", "\\ud800"}

RunLens == {1, MaxTextLen, MaxTextLen + 1}

Runs == [c : TextChars, n : RunLens]

\* Adjacent runs hold different characters: one representation per string.
IsText(s) == \A i \in 1..(Len(s) - 1) : s[i].c # s[i + 1].c

Texts == UNION {{s \in [1..k -> Runs] : IsText(s)} : k \in 0..MaxRuns}

IsSpace(c) == c = " "

RECURSIVE lstrip(_)
lstrip(s) ==
  IF s = <<>> THEN <<>>
  ELSE IF IsSpace(Head(s).c) THEN lstrip(Tail(s)) ELSE s

RECURSIVE rstrip(_)
rstrip(s) ==
  IF s = <<>> THEN <<>>
  ELSE IF IsSpace(s[Len(s)].c) THEN rstrip(SubSeq(s, 1, Len(s) - 1)) ELSE s

\* str.strip() without arguments
strip_identity(s) == s
strip(s) == rstrip(lstrip(s))

\* len(str)
RECURSIVE len(_)
len(s) == IF s = <<>> THEN 0 ELSE Head(s).n + len(Tail(s))

\* quote(text) encodes to UTF-8 with errors='strict': an unpaired surrogate
\* raises UnicodeEncodeError.
QuoteRaises(s) == \E i \in 1..Len(s) : s[i].c = "\\ud800"

\* ------------------------------------------------------------ JSON values

Absent == [t |-> "absent"]
JNull == [t |-> "null"]
JNum == [t |-> "num", v |-> 5]
JListOfText == [t |-> "list", v |-> <<"text">>]
JStr(s) == [t |-> "str", v |-> s]

\* Language values a request carries.  The handler never looks them up in
\* get_supported_languages(): any JSON value is taken as it comes.
Auto == JStr("auto")
LangVals == {Auto, JStr("en"), JStr("fr")}

TextVals == {JStr(s) : s \in Texts} \cup {JNum}

\* A JSON object body: each of the three keys present or not.
ObjectBodies ==
  [text : TextVals \cup {Absent},
   source_lang : LangVals \cup {Absent},
   target_lang : LangVals \cup {Absent}]

JObj(o) == [t |-> "obj", v |-> o]

JsonBodies == {JNull, JNum, JListOfText} \cup {JObj(o) : o \in ObjectBodies}

\* What POST /translate receives: no JSON body at all (no body, or a content
\* type that is not JSON), a JSON content type with bytes json.loads refuses
\* (the empty body included), or a JSON value.
RawBodies ==
  {[k |-> "nobody"], [k |-> "badjson"]} \cup {[k |-> "json", v |-> j] : j \in JsonBodies}

\* ------------------------------------------------- outcomes of Python code

Return(v) == [raised |-> FALSE, v |-> v]
Raise(cls, msg) == [raised |-> TRUE, cls |-> cls, msg |-> msg]

\* Error strings: a Python str made of a literal prefix and a detail, or a
\* value that is no str at all.
ErrStr(prefix, detail) == [isStr |-> TRUE, prefix |-> prefix, detail |-> detail]
ErrVal(j) ==
  IF j.t = "str" THEN ErrStr("", j.v)
  ELSE [isStr |-> FALSE, prefix |-> "", detail |-> j.t]

Failure(err) == [success |-> FALSE, error |-> err]
Success(tt, sl, tl) ==
  [success |-> TRUE, translated_text |-> tt, source_lang |-> sl, target_lang |-> tl]

\* ------------------------------------------------- request.get_json()

\* legacy: Werkzeug before 2.1 returns None for a request that is not JSON;
\* later versions raise 415 Unsupported Media Type.  Bytes that do not parse
\* raise 400 Bad Request in every version (on_json_loading_failed).
get_json(body, legacy) ==
  CASE body.k = "nobody" ->
         IF legacy THEN Return(JNull)
         ELSE Raise("UnsupportedMediaType", "415 Unsupported Media Type")
    [] body.k = "badjson" -> Raise("BadRequest", "400 Bad Request")
    [] OTHER -> Return(body.v)

\* Python truthiness of the parsed body: `not data`
Falsy(j) ==
  \/ j.t = "null"
  \/ j.t = "obj" /\ j.v.text = Absent /\ j.v.source_lang = Absent
                 /\ j.v.target_lang = Absent

\* data.get(key, default) on a dict
DictGet(value, default) == IF value = Absent THEN default ELSE value

\* ---------------------------------------------- translate(): validation

TooLong_inclusive(text) == len(text) >= MaxTextLen
\* app.py:127
TooLong(text) == len(text) > MaxTextLen

SameLanguage_noAuto(source_lang, target_lang) == source_lang = target_lang
\* app.py:129
SameLanguage(source_lang, target_lang) ==
  source_lang = target_lang /\ source_lang # Auto

Validate_noLanguageCheck(text, source_lang, target_lang) ==
  IF text = <<>> THEN "Please enter text to translate"
  ELSE IF TooLong(text) THEN "Text too long (max 5000 characters)"
  ELSE "ok"
\* app.py:125-130: the error of the first check that fails, or "ok"
Validate(text, source_lang, target_lang) ==
  IF text = <<>> THEN "Please enter text to translate"
  ELSE IF TooLong(text) THEN "Text too long (max 5000 characters)"
  ELSE IF SameLanguage(source_lang, target_lang)
    THEN "Source and target languages cannot be the same"
  ELSE "ok"

\* app.py:115-130, the handler up to the call of translator.translate_text:
\* Return(envelope) when it answers at once, Return of the arguments of
\* translate_text when validation passes, Raise when a statement raises.
Call(text, source_lang, target_lang) ==
  [call |-> TRUE, text |-> text, source_lang |-> source_lang,
   target_lang |-> target_lang]

Respond(envelope) == [call |-> FALSE, envelope |-> envelope]

BeforeCall(body, legacy) ==
  LET got == get_json(body, legacy) IN
  IF got.raised THEN got
  ELSE
    LET data == got.v IN
    IF Falsy(data) THEN Return(Respond(Failure(ErrStr("No text provided", ""))))
    ELSE IF data.t = "num"
      THEN Raise("TypeError", "argument of type 'int' is not iterable")
    ELSE IF data.t = "list"
      \* 'text' in ["text"] holds, data['text'] raises
      THEN Raise("TypeError", "list indices must be integers or slices, not str")
    ELSE IF data.v.text = Absent
      THEN Return(Respond(Failure(ErrStr("No text provided", ""))))
    ELSE IF data.v.text.t # "str"
      THEN Raise("AttributeError", "'int' object has no attribute 'strip'")
    ELSE
      LET text == strip(data.v.text.v)
          source_lang == DictGet(data.v.source_lang, Auto)
          target_lang == DictGet(data.v.target_lang, JStr("en"))
          verdict == Validate(text, source_lang, target_lang)
      IN IF verdict # "ok" THEN Return(Respond(Failure(ErrStr(verdict, ""))))
         ELSE Return(Call(text, source_lang, target_lang))

\* ------------------------------------------------ the provider's answer

\* HTTP statuses of the final response requests.get hands back.  304 is a
\* 3xx that is no redirect (no Location header): requests returns it as is.
Statuses == {200, 304, 404}

ProviderTexts == {JStr("hola"), JStr("salut")}

\* responseData: missing, an object without translatedText, or one with it
ResponseDatas ==
  {Absent, [t |-> "obj", translatedText |-> Absent]}
    \cup {[t |-> "obj", translatedText |-> x] : x \in ProviderTexts}

ResponseStatuses == {Absent, [t |-> "num", v |-> 200], [t |-> "num", v |-> 403]}

ResponseDetails == {Absent, JNull, JStr("QUOTA EXCEEDED")}

\* The language the provider reports on its own (detected-language, matches)
ReportedLangs == {JStr("en"), JStr("de")}

\* The body of the provider's response: bytes that are no JSON, a JSON array,
\* or a JSON object.
Payloads ==
  {[kind |-> "invalid"], [kind |-> "array"]}
    \cup [kind : {"object"}, responseStatus : ResponseStatuses,
          responseData : ResponseDatas, responseDetails : ResponseDetails,
          reported : ReportedLangs]

\* What requests.get(url, timeout=10) ends with.
Replies ==
  {[transport |-> "timeout"], [transport |-> "connection"]}
    \cup [transport : {"http"}, status : Statuses, body : Payloads]

\* ---------------------------------- TranslationService.translate_text

\* requests.get: raises Timeout or ConnectionError, or returns the response
requests_get(reply) ==
  CASE reply.transport = "timeout" -> Raise("Timeout", "Read timed out. (read timeout=10)")
    [] reply.transport = "connection" -> Raise("ConnectionError", "Max retries exceeded")
    [] OTHER -> Return(reply)

\* response.raise_for_status(): HTTPError for 4xx and 5xx, nothing else
raise_for_status(status) == 400 <= status /\ status < 600

\* response.json(): requests 2.27 and later raise
\* requests.exceptions.JSONDecodeError, a RequestException; earlier versions
\* raise json.JSONDecodeError, a ValueError.
response_json(body, modern) ==
  IF body.kind = "invalid"
    THEN IF modern THEN Raise("requests.JSONDecodeError", "Expecting value")
         ELSE Raise("json.JSONDecodeError", "Expecting value")
  ELSE Return(body)

IsRequestException(cls) ==
  cls \in {"Timeout", "ConnectionError", "HTTPError", "requests.JSONDecodeError"}

\* app.py:35  data.get('responseStatus') == 200
StatusIs200(data) ==
  data.responseStatus # Absent /\ data.responseStatus.v = 200

\* app.py:36-41
SuccessResult_reported(data, source_lang, target_lang) ==
  Success(data.responseData.translatedText, data.reported, target_lang)
SuccessResult(data, source_lang, target_lang) ==
  Success(data.responseData.translatedText, source_lang, target_lang)

\* app.py:43-46  data.get('responseDetails', 'Translation failed')
FailureResult(data) ==
  IF data.responseDetails = Absent THEN Failure(ErrStr("Translation failed", ""))
  ELSE Failure(ErrVal(data.responseDetails))

\* app.py:28-46, the body of the try block from requests.get on
TryBody(reply, source_lang, target_lang, modern) ==
  LET response == requests_get(reply) IN
  IF response.raised THEN response
  ELSE IF raise_for_status(reply.status)
    THEN Raise("HTTPError", "Client Error")
  ELSE
    LET parsed == response_json(reply.body, modern) IN
    IF parsed.raised THEN parsed
    ELSE
      LET data == parsed.v IN
      IF data.kind = "array"
        THEN Raise("AttributeError", "'list' object has no attribute 'get'")
      ELSE IF StatusIs200(data)
        THEN IF data.responseData = Absent
               THEN Raise("KeyError", "'responseData'")
             ELSE IF data.responseData.translatedText = Absent
               THEN Raise("KeyError", "'translatedText'")
             ELSE Return(SuccessResult(data, source_lang, target_lang))
      ELSE Return(FailureResult(data))

\* app.py:48-57: the two except clauses, in their order
Except(outcome) ==
  IF ~outcome.raised THEN outcome.v
  ELSE IF IsRequestException(outcome.cls)
    THEN Failure(ErrStr("Network error: ", outcome.msg))
  ELSE Failure(ErrStr("Translation error: ", outcome.msg))

\* app.py:136-137
ServerError(outcome) == Failure(ErrStr("Server error: ", outcome.msg))

\* ------------------------------------- the query string, by character

\* A string is here a sequence of characters.  "U+3053" stands for the
\* hiragana letter KO (UTF-8: E3 81 93), "\\ud800" for an unpaired
\* surrogate; every other character is ASCII.
MaxEncLen == 2

AsciiTable == {
  <<" ", 32>>, <<"#", 35>>, <<"%", 37>>, <<"&", 38>>, <<"+", 43>>,
   <<"-", 45>>, <<"/", 47>>, <<"0", 48>>, <<"1", 49>>, <<"2", 50>>,
   <<"3", 51>>, <<"4", 52>>, <<"5", 53>>, <<"6", 54>>, <<"7", 55>>,
   <<"8", 56>>, <<"9", 57>>, <<"=", 61>>, <<"A", 65>>, <<"B", 66>>,
   <<"C", 67>>, <<"D", 68>>, <<"E", 69>>, <<"F", 70>>, <<"a", 97>>,
   <<"b", 98>>, <<"c", 99>>, <<"d", 100>>, <<"e", 101>>, <<"f", 102>>,
   <<"g", 103>>, <<"h", 104>>, <<"i", 105>>, <<"j", 106>>, <<"k", 107>>,
   <<"l", 108>>, <<"m", 109>>, <<"n", 110>>, <<"o", 111>>, <<"p", 112>>,
   <<"q", 113>>, <<"r", 114>>, <<"s", 115>>, <<"t", 116>>, <<"u", 117>>,
   <<"v", 118>>, <<"w", 119>>, <<"x", 120>>, <<"y", 121>>, <<"z", 122>>,
   <<"|", 124>> }

AsciiChars == {p[1] : p \in AsciiTable}

ord(c) == (CHOOSE p \in AsciiTable : p[1] = c)[2]

\* str.encode('utf-8', 'strict') of one character
Utf8(c) ==
  IF c = "U+3053" THEN <<227, 129, 147>> ELSE <<ord(c)>>

HexDigits == <<"0", "1", "2", "3", "4", "5", "6", "7", "8", "9",
               "A", "B", "C", "D", "E", "F">>

\* '%{:02X}'.format(byte)
PercentByte(b) == <<"%", HexDigits[(b \div 16) + 1], HexDigits[(b % 16) + 1]>>

RECURSIVE PercentBytes(_)
PercentBytes(bs) ==
  IF bs = <<>> THEN <<>> ELSE PercentByte(Head(bs)) \o PercentBytes(Tail(bs))

Letters == {"a", "b", "c", "d", "e", "f", "g", "h", "i", "j", "k", "l", "m",
            "n", "o", "p", "q", "r", "s", "t", "u", "v", "w", "x", "y", "z",
            "A", "B", "C", "D", "E", "F"}
Digits == {"0", "1", "2", "3", "4", "5", "6", "7", "8", "9"}

\* urllib.parse: _ALWAYS_SAFE (letters, digits, "_.-~") and quote's default
\* safe='/', as far as AsciiTable holds them
QuoteSafe == Letters \cup Digits \cup {"-", "/"}

RECURSIVE QuoteChars(_)
QuoteChars(text) ==
  IF text = <<>> THEN <<>>
  ELSE (IF Head(text) \in QuoteSafe THEN <<Head(text)>>
        ELSE PercentBytes(Utf8(Head(text)))) \o QuoteChars(Tail(text))

\* app.py:22  quote(text)
quote(text) ==
  IF \E i \in 1..Len(text) : text[i] = "\\ud800"
    THEN Raise("UnicodeEncodeError", "surrogates not allowed")
  ELSE Return(QuoteChars(text))

\* app.py:25, the part of the url after "?":
\* f"q={encoded_text}&langpair={source_lang}|{target_lang}"
QueryString(encoded_text, source_lang, target_lang) ==
  <<"q", "=">> \o encoded_text
    \o <<"&", "l", "a", "n", "g", "p", "a", "i", "r", "=">>
    \o source_lang \o <<"|">> \o target_lang

\* requests.get, the request line: the fragment (from the first "#") is not
\* sent, and requote_uri percent-encodes what a URL may not hold ("|", " ").
RequoteSafe == Letters \cup Digits \cup {"-", "/", "&", "=", "%", "+"}

RECURSIVE Requote(_)
Requote(q) ==
  IF q = <<>> THEN <<>>
  ELSE (IF Head(q) \in RequoteSafe THEN <<Head(q)>>
        ELSE PercentBytes(Utf8(Head(q)))) \o Requote(Tail(q))

RECURSIVE BeforeFragment(_)
BeforeFragment(q) ==
  IF q = <<>> \/ Head(q) = "#" THEN <<>>
  ELSE <<Head(q)>> \o BeforeFragment(Tail(q))

SentQuery(q) == Requote(BeforeFragment(q))

\* ---- the provider's side: a query string parsed as every HTTP server does

HexValue(d) == (CHOOSE i \in 1..16 : HexDigits[i] = d) - 1

IsHex(d) == \E i \in 1..16 : HexDigits[i] = d

\* percent-decoding to bytes, "+" read as a space
RECURSIVE UnquoteBytes(_)
UnquoteBytes(q) ==
  IF q = <<>> THEN <<>>
  ELSE IF Head(q) = "%" /\ Len(q) >= 3 /\ IsHex(q[2]) /\ IsHex(q[3])
    THEN <<16 * HexValue(q[2]) + HexValue(q[3])>> \o UnquoteBytes(SubSeq(q, 4, Len(q)))
  ELSE IF Head(q) = "+" THEN <<32>> \o UnquoteBytes(Tail(q))
  ELSE <<ord(Head(q))>> \o UnquoteBytes(Tail(q))

\* bytes.decode('utf-8'): one byte below 128, three from a lead byte E0..EF
RECURSIVE Utf8Decode(_)
Utf8Decode(bs) ==
  IF bs = <<>> THEN <<>>
  ELSE IF Head(bs) < 128
    THEN <<(CHOOSE p \in AsciiTable : p[2] = Head(bs))[1]>> \o Utf8Decode(Tail(bs))
  ELSE IF Len(bs) >= 3 /\ SubSeq(bs, 1, 3) = <<227, 129, 147>>
    THEN <<"U+3053">> \o Utf8Decode(SubSeq(bs, 4, Len(bs)))
  ELSE <<"U+FFFD">> \o Utf8Decode(Tail(bs))

unquote(q) == Utf8Decode(UnquoteBytes(q))

\* The pieces of q between the separators sep
RECURSIVE Split(_, _)
Split(q, sep) ==
  IF \A i \in 1..Len(q) : q[i] # sep THEN <<q>>
  ELSE LET at == CHOOSE i \in 1..Len(q) :
                   q[i] = sep /\ \A j \in 1..(i - 1) : q[j] # sep
       IN <<SubSeq(q, 1, at - 1)>> \o Split(SubSeq(q, at + 1, Len(q)), sep)

\* key=value, split at the first "="
Param(piece) ==
  IF \A i \in 1..Len(piece) : piece[i] # "=" THEN [key |-> unquote(piece), value |-> <<>>]
  ELSE LET at == CHOOSE i \in 1..Len(piece) :
                   piece[i] = "=" /\ \A j \in 1..(i - 1) : piece[j] # "="
       IN [key |-> unquote(SubSeq(piece, 1, at - 1)),
           value |-> unquote(SubSeq(piece, at + 1, Len(piece)))]

ParseQuery(q) ==
  LET pieces == Split(q, "&") IN [i \in 1..Len(pieces) |-> Param(pieces[i])]

\* Inputs of the encoding model: the texts translate_text can be called with
\* (stripped, not empty) and the language values of a request.
EncChars == {"a", " ", "&", "=", "#", "+", "%", "/", "|", "U+3053", "\\ud800"}

EncTexts ==
  {s \in UNION {[1..k -> EncChars] : k \in 1..MaxEncLen} :
     s[1] # " " /\ s[Len(s)] # " "}

\* "en", "zh-tw" are catalog codes (app.py:66, app.py:83); "en&q=x" is a value
\* a client can send: the handler checks no language against the catalog.
EncLangs == {<<"e", "n">>, <<"z", "h", "-", "t", "w">>,
             <<"e", "n", "&", "q", "=", "x">>}

\* ------------------------------------------------------ the state machine

VARIABLES
  pc,         \* "idle": no request yet; "calling": inside requests.get; "done"
  request,    \* the body POST /translate received
  args,       \* the arguments translate_text was called with
  calls,      \* how many times requests.get was invoked
  reply,      \* what requests.get ended with
  result,     \* the envelope handed to jsonify
  envelopes,  \* how many envelopes the request was answered with
  escaped,    \* an exception left translate() or translate_text()
  encPc,      \* encoding model: "off", "start", "sent", "raised", "received"
  encArgs,    \* encoding model: text, source_lang, target_lang by character
  url,        \* encoding model: the query string of the request line
  params      \* encoding model: the parameters the provider decoded

hvars == <<pc, request, args, calls, reply, result, envelopes, escaped>>
evars == <<encPc, encArgs, url, params>>
vars == <<hvars, evars>>

NoRequest == [k |-> "none"]
NoArgs == [call |-> FALSE]
NoReply == [transport |-> "none"]
NoResult == [none |-> TRUE]

EncOff ==
  /\ encPc = "off"
  /\ encArgs = <<>>
  /\ url = <<>>
  /\ params = <<>>

Init ==
  /\ EncOff
  /\ pc = "idle"
  /\ request = NoRequest
  /\ args = NoArgs
  /\ calls = 0
  /\ reply = NoReply
  /\ result = NoResult
  /\ envelopes = 0
  /\ escaped = FALSE

\* app.py:53 and app.py:136: `except Exception` catches every exception the
\* modelled statements raise.
Caught(cls) == TRUE

\* app.py:110-137 up to the moment translate_text blocks in requests.get
\* (app.py:28); a request that fails validation, raises, or whose text quote()
\* refuses is answered here.
translate(body, legacy) ==
  /\ pc = "idle"
  /\ UNCHANGED evars
  /\ request' = body
  /\ reply' = reply
  /\ LET before == BeforeCall(body, legacy) IN
     IF before.raised
       THEN /\ result' = ServerError(before)
            /\ escaped' = ~Caught(before.cls)
            /\ pc' = "done" /\ envelopes' = envelopes + 1
            /\ UNCHANGED <<args, calls>>
     ELSE IF ~before.v.call
       THEN /\ result' = before.v.envelope
            /\ pc' = "done" /\ envelopes' = envelopes + 1
            /\ UNCHANGED <<args, calls, escaped>>
     ELSE IF QuoteRaises(before.v.text)
       \* app.py:22 raises inside the try block of translate_text
       THEN /\ args' = before.v
            /\ result' = Except(Raise("UnicodeEncodeError", "surrogates not allowed"))
            /\ escaped' = ~Caught("UnicodeEncodeError")
            /\ pc' = "done" /\ envelopes' = envelopes + 1
            /\ UNCHANGED calls
     ELSE /\ args' = before.v
          /\ calls' = calls + 1
          /\ pc' = "calling"
          /\ UNCHANGED <<result, envelopes, escaped>>

\* app.py:28-57 and app.py:133-134: requests.get ends, translate_text maps the
\* answer to its result, the handler returns jsonify(result).
provider_reply(r, modern) ==
  /\ pc = "calling"
  /\ UNCHANGED evars
  /\ reply' = r
  /\ LET outcome == TryBody(r, args.source_lang, args.target_lang, modern) IN
     /\ result' = Except(outcome)
     /\ escaped' = (outcome.raised /\ ~Caught(outcome.cls))
  /\ pc' = "done"
  /\ envelopes' = envelopes + 1
  /\ UNCHANGED <<request, args, calls>>

Next ==
  \/ \E body \in RawBodies, legacy \in BOOLEAN : translate(body, legacy)
  \/ \E r \in Replies, modern \in BOOLEAN : provider_reply(r, modern)

Spec == Init /\ [][Next]_vars

\* ---- the encoding model: translate_text called with text and languages

InitEnc ==
  /\ pc = "idle" /\ request = NoRequest /\ args = NoArgs /\ calls = 0
  /\ reply = NoReply /\ result = NoResult /\ envelopes = 0 /\ escaped = FALSE
  /\ encPc = "start"
  /\ encArgs \in {a \in [text : EncTexts, source_lang : EncLangs,
                          target_lang : EncLangs] :
                     a.source_lang # a.target_lang}
  /\ url = <<>>
  /\ params = <<>>

\* app.py:20-28: quote, the f-string, and requests.get putting the request
\* on the wire; a text quote() refuses ends in the except clause.
build_url ==
  /\ encPc = "start"
  /\ LET encoded_text == quote(encArgs.text) IN
     IF encoded_text.raised
       THEN encPc' = "raised" /\ url' = url
     ELSE /\ encPc' = "sent"
          /\ url' = SentQuery(QueryString(encoded_text.v, encArgs.source_lang,
                                          encArgs.target_lang))
  /\ UNCHANGED <<encArgs, params, hvars>>

\* The provider reads the parameters off the request line.
provider_parse ==
  /\ encPc = "sent"
  /\ params' = ParseQuery(url)
  /\ encPc' = "received"
  /\ UNCHANGED <<encArgs, url, hvars>>

NextEnc == build_url \/ provider_parse

SpecEnc == InitEnc /\ [][NextEnc]_vars

\* =================================================================== claims

\* The request as the claims speak of it, read off the received body without
\* the handler's own operators.
ReqIsObject == request.k = "json" /\ request.v.t = "obj"

ReqHasStringText ==
  ReqIsObject /\ request.v.v.text # Absent /\ request.v.v.text.t = "str"

ReqText == request.v.v.text.v

ReqSource ==
  IF request.v.v.source_lang = Absent THEN JStr("auto") ELSE request.v.v.source_lang

ReqTarget ==
  IF request.v.v.target_lang = Absent THEN JStr("en") ELSE request.v.v.target_lang

AllWhitespace(s) == \A i \in 1..Len(s) : s[i].c = " "

\* The text between the first and the last character that is no whitespace
Trimmed(s) ==
  IF AllWhitespace(s) THEN <<>>
  ELSE LET first == CHOOSE i \in 1..Len(s) :
                      s[i].c # " " /\ \A j \in 1..(i - 1) : s[j].c = " "
           last == CHOOSE i \in 1..Len(s) :
                     s[i].c # " " /\ \A j \in (i + 1)..Len(s) : s[j].c = " "
       IN SubSeq(s, first, last)

RECURSIVE CharCount(_)
CharCount(s) == IF s = <<>> THEN 0 ELSE s[1].n + CharCount(Tail(s))

TrimmedLen == CharCount(Trimmed(ReqText))

WellFormed(s) == \A i \in 1..Len(s) : s[i].c # "\\ud800"

LangsClash == ReqSource = ReqTarget /\ ReqSource # JStr("auto")

Answered == pc = "done" /\ envelopes = 1

Rejected(message) ==
  /\ Answered
  /\ result = [success |-> FALSE,
               error |-> [isStr |-> TRUE, prefix |-> message, detail |-> ""]]
  /\ calls = 0
  /\ args = NoArgs

\* C1: a request whose text is a string that is empty or whitespace-only is
\* answered {success:false, error:"Please enter text to translate"} whatever
\* the languages are, and the provider is not called.
C1_EmptyTextRejected ==
  (pc # "idle" /\ ReqHasStringText /\ AllWhitespace(ReqText))
    => Rejected("Please enter text to translate")

\* C1 witness: whitespace-only text with equal non-auto languages, rejected
\* as empty.
C1_Witness ==
  /\ pc = "done"
  /\ ReqHasStringText /\ ReqText # <<>> /\ AllWhitespace(ReqText)
  /\ ReqSource = JStr("en") /\ ReqTarget = JStr("en")
  /\ result.error.prefix = "Please enter text to translate"

\* C2 as stated: with valid languages, a trimmed text of exactly 5000
\* characters is forwarded to the provider, one of 5001 or more is rejected
\* as too long without a provider call.
C2_Original ==
  (pc # "idle" /\ ReqHasStringText /\ ~LangsClash)
    => /\ TrimmedLen = MaxTextLen => calls = 1
       /\ TrimmedLen > MaxTextLen => Rejected("Text too long (max 5000 characters)")

\* C2 amended: the limit is measured on the trimmed text and is inclusive at
\* 5000: with valid languages a trimmed text of exactly 5000 characters passes
\* validation and is handed, trimmed, to translate_text, which calls the
\* provider unless quote() cannot encode the text (an unpaired surrogate);
\* 5001 or more is rejected as too long without a provider call.
C2_LengthLimit ==
  (pc # "idle" /\ ReqHasStringText /\ ~LangsClash)
    => /\ TrimmedLen = MaxTextLen
            => /\ args # NoArgs /\ args.text = Trimmed(ReqText)
               /\ calls = (IF WellFormed(ReqText) THEN 1 ELSE 0)
               /\ ~WellFormed(ReqText)
                    => Answered /\ ~result.success
                         /\ result.error.prefix = "Translation error: "
       /\ TrimmedLen > MaxTextLen => Rejected("Text too long (max 5000 characters)")

\* C2 witness: more than 5000 characters before trimming, exactly 5000 after,
\* and the provider call is under way.
C2_Witness ==
  /\ pc = "calling" /\ calls = 1
  /\ ReqHasStringText
  /\ CharCount(ReqText) > MaxTextLen /\ TrimmedLen = MaxTextLen

ReqTextValid ==
  ReqHasStringText /\ TrimmedLen >= 1 /\ TrimmedLen <= MaxTextLen /\ WellFormed(ReqText)

\* C3: with a valid text (non-empty after trimming, at most 5000 characters,
\* well-formed), the request is rejected as "Source and target languages
\* cannot be the same" exactly when source equals target and source is not
\* "auto", the defaults auto/en standing in for absent fields; auto/auto is
\* forwarded; every request that reaches the provider has source = "auto" or
\* source # target.
C3_SameLanguage ==
  /\ (pc # "idle" /\ ReqHasStringText /\ TrimmedLen >= 1 /\ TrimmedLen <= MaxTextLen)
       => /\ LangsClash
               <=> Rejected("Source and target languages cannot be the same")
          /\ ~LangsClash
               => args.source_lang = ReqSource /\ args.target_lang = ReqTarget
  /\ (pc # "idle" /\ ReqTextValid /\ ~LangsClash) => calls = 1
  /\ calls > 0 => (args.source_lang = JStr("auto") \/ args.source_lang # args.target_lang)

\* C3 witness: source and target both "auto", the provider call under way.
C3_Witness ==
  /\ pc = "calling" /\ calls = 1
  /\ ReqTextValid
  /\ request.v.v.source_lang = JStr("auto") /\ request.v.v.target_lang = JStr("auto")

\* What the claims call the provider's answer, read off the reply.
ProviderAnswered == pc = "done" /\ calls = 1

Is2xx == reply.transport = "http" /\ 200 <= reply.status /\ reply.status < 300

TransportFailed ==
  \/ reply.transport \in {"timeout", "connection"}
  \/ reply.transport = "http" /\ ~(200 <= reply.status /\ reply.status < 300)

PayloadIsObject == reply.body.kind = "object"

Embedded200 ==
  /\ PayloadIsObject
  /\ reply.body.responseStatus # [t |-> "absent"]
  /\ reply.body.responseStatus.v = 200

HasTranslatedText ==
  /\ PayloadIsObject
  /\ reply.body.responseData # [t |-> "absent"]
  /\ reply.body.responseData.translatedText # [t |-> "absent"]

EchoesRequest ==
  /\ result.success
  /\ result.source_lang = ReqSource
  /\ result.target_lang = ReqTarget

\* C4 as stated: transport success and an embedded responseStatus of 200
\* give {success:true, ...} with the request's languages.
C4_Original ==
  (ProviderAnswered /\ Is2xx /\ Embedded200) => EchoesRequest

\* C4 amended: for a request that passed validation, transport success and an
\* embedded responseStatus of 200 with responseData.translatedText present
\* give {success:true, translated_text, source_lang, target_lang} where
\* translated_text is the provider's responseData.translatedText and the
\* languages are the request's (after defaults), whatever language the
\* provider's payload reports.
C4_SuccessEchoesRequest ==
  (ProviderAnswered /\ Is2xx /\ Embedded200 /\ HasTranslatedText)
    => /\ EchoesRequest
       /\ result.translated_text = reply.body.responseData.translatedText
       /\ DOMAIN result = {"success", "translated_text", "source_lang", "target_lang"}

\* C4 witness: a success whose payload reports a language that is neither
\* the request's source nor its target.
C4_Witness ==
  /\ ProviderAnswered /\ Is2xx /\ Embedded200 /\ HasTranslatedText
  /\ result.success
  /\ reply.body.reported = [t |-> "str", v |-> "de"]
  /\ ReqSource = [t |-> "str", v |-> "fr"]
  /\ result.translated_text = [t |-> "str", v |-> "salut"]

\* C5: a transport failure (timeout, connection failure, a non-2xx HTTP
\* status) gives {success:false, error} with error starting "Network error: ",
\* and no exception escapes.
C5_TransportFailure ==
  (ProviderAnswered /\ TransportFailed)
    => /\ ~result.success
       /\ result.error.isStr /\ result.error.prefix = "Network error: "
       /\ ~escaped

MalformedPayload ==
  \/ reply.body.kind \in {"invalid", "array"}
  \/ Embedded200 /\ ~HasTranslatedText

\* C6: transport success with a malformed payload (no valid JSON, no object,
\* or responseStatus 200 without responseData.translatedText) gives a failure
\* whose error starts "Translation error: ", and no exception escapes.
C6_MalformedPayload ==
  (ProviderAnswered /\ Is2xx /\ MalformedPayload)
    => /\ ~result.success
       /\ result.error.isStr /\ result.error.prefix = "Translation error: "
       /\ ~escaped

\* C7: a reachable provider whose payload's responseStatus is not 200 gives
\* {success:false, error} with error the provider's responseDetails, or
\* "Translation failed" when there is none; error is always a string.
C7_ProviderFailure ==
  (ProviderAnswered /\ Is2xx /\ PayloadIsObject /\ ~Embedded200)
    => /\ ~result.success
       /\ result.error.isStr
       /\ reply.body.responseDetails = [t |-> "absent"]
            => result.error.prefix = "Translation failed"
       /\ reply.body.responseDetails.t = "str"
            => result.error.detail = reply.body.responseDetails.v

AllChecksPass ==
  /\ ReqHasStringText
  /\ TrimmedLen >= 1 /\ TrimmedLen <= MaxTextLen
  /\ ~LangsClash

\* C8 as stated: the provider is called exactly once when every validation
\* check passes and never otherwise; one envelope ends the request.
C8_Original ==
  /\ pc # "idle" => calls = (IF AllChecksPass THEN 1 ELSE 0)
  /\ pc = "done" => envelopes = 1

\* C8 amended: the provider is called at most once per request: exactly once
\* when every validation check passes and quote() can encode the text, never
\* when a check fails or the text holds an unpaired surrogate (translate_text
\* is entered and answers "Translation error: "); no failure leads to a
\* second call, and the request ends with exactly one envelope.
C8_AtMostOneCall ==
  /\ pc # "idle"
       => /\ calls = (IF AllChecksPass /\ WellFormed(ReqText) THEN 1 ELSE 0)
          /\ (args # NoArgs) <=> AllChecksPass
  /\ envelopes = (IF pc = "done" THEN 1 ELSE 0)
  /\ (pc = "done" /\ AllChecksPass /\ ~WellFormed(ReqText))
       => ~result.success /\ result.error.prefix = "Translation error: "

\* C8 witness: the one provider call timed out, the request is over with one
\* failure envelope and no further call.
C8_Witness ==
  /\ pc = "done" /\ calls = 1 /\ envelopes = 1
  /\ reply.transport = "timeout"
  /\ ~result.success

NoTextKey ==
  \/ request.k \in {"nobody", "badjson"}
  \/ request.k = "json" /\ request.v = [t |-> "null"]
  \/ ReqIsObject /\ request.v.v.text = [t |-> "absent"]

\* C9: every body gets a {success:false, error} envelope without a provider
\* call and without a fault escaping; a missing or empty body or an absent
\* text key gives "No text provided", an exception gives "Server error: ...".
C9_NoTextProvided ==
  (pc # "idle" /\ NoTextKey)
    => /\ Rejected("No text provided")
       /\ ~escaped

\* What the provider should read: q = text, langpair = source|target,
\* and nothing else.
ExpectedParams ==
  << [key |-> <<"q">>, value |-> encArgs.text],
     [key |-> <<"l", "a", "n", "g", "p", "a", "i", "r">>,
      value |-> encArgs.source_lang \o <<"|">> \o encArgs.target_lang] >>

PlainLang(l) == \A i \in 1..Len(l) : l[i] \in Letters \cup Digits \cup {"-"}

TextWellFormed == \A i \in 1..Len(encArgs.text) : encArgs.text[i] # "\\ud800"

\* C10: for every valid text the provider decodes q equal to the text and
\* langpair equal to source|target, and the text adds or alters no other
\* parameter.
C10_QueryRoundTrip ==
  /\ (encPc = "received" /\ TextWellFormed) => params = ExpectedParams
  /\ (encPc # "start" /\ TextWellFormed) => encPc # "raised"

\* The part of C10 that is about the text alone, whatever the languages are:
\* URL-encoding then URL-decoding the text is the identity, the first
\* parameter the provider reads is q = text, and the encoded text holds no
\* "&", "=", "#" or "+"; with language values of letters, digits and "-" (as
\* every catalog code is) the provider reads exactly q and langpair.
TextRoundTrip ==
  /\ (encPc # "start" /\ TextWellFormed) => encPc # "raised"
  /\ (encPc = "received" /\ PlainLang(encArgs.source_lang)
        /\ PlainLang(encArgs.target_lang))
       => params = ExpectedParams
  /\ encPc = "received"
       => /\ params[1] = [key |-> <<"q">>, value |-> encArgs.text]
          /\ unquote(quote(encArgs.text).v) = encArgs.text
          /\ \A i \in 1..Len(quote(encArgs.text).v) :
               quote(encArgs.text).v[i] \notin {"&", "=", "#", "+"}

\* A text of a non-ASCII letter and "&" arrived intact with a catalog
\* language pair.
TextRoundTripReached ==
  /\ encPc = "received"
  /\ encArgs.text = <<"U+3053", "&">>
  /\ encArgs.source_lang = <<"e", "n">>
  /\ encArgs.target_lang = <<"z", "h", "-", "t", "w">>
  /\ params = ExpectedParams

====
